---- MODULE Spec2Model ----
(***************************************************************************)
(* A model of the flying-pathfinding crate:                                *)
(*   - pathfinding.rs : find_path, the best-first search over a            *)
(*                      LocalVectorProvider, and reconstruct_path;         *)
(*   - lib.rs         : Grid, the bit-packed occupancy grid, with its      *)
(*                      new / set_obstacle / is_obstacle / export / import;*)
(*   - provider.rs    : FolderGridProvider::is_obstacle, the chunk lookup. *)
(* Each component has its own specification (SpecSearch, SpecGrid and     *)
(* SpecLargeGrid, SpecProvider); the variables of the others stay idle.    *)
(***************************************************************************)
EXTENDS Integers, Sequences, FiniteSets, Bags, TLC

VARIABLES
    \* ---- the LocalVectorProvider handed to find_path, and the call's arguments
    stepCost,        \* [Loc \X Loc -> StepCosts \cup {0}]: cost of the move get_adjacent_vectors offers, 0 = not offered
    heur,            \* [Loc -> Estimates]: Distance::distance(location, goal location)
    start,           \* the start world point
    goal,            \* the goal world point
    \* ---- find_path's locals
    pc,              \* "call" | "search" | "done"
    reachable,       \* the BinaryHeap of nodes (a bag: the same node may be pushed twice)
    explored,        \* the IndexSet of nodes, in insertion order (index i is explored[i+1])
    result,          \* "none" | "Ok" | "NoPath" | "UnresolvedGlobalVector"
    path,            \* the Vec<Vector3> returned with Ok
    calledAdjacent,  \* get_adjacent_vectors has been called
    calledToGlobal,  \* to_global_vector has been called
    pops,            \* how many nodes the loop has popped
    \* ---- a Grid and the file it is exported to
    gphase,          \* "building" | "exported" | "imported" | "queried"
    grid,            \* the Grid built: [width, height, len, ones], data being `len` bits, those of `ones` set
    loaded,          \* the Grid that import returned
    requested,       \* the voxels of the grid that set_obstacle was called for and returned
    strayed,         \* a call was made with a coordinate outside the grid
    sets,            \* how many set_obstacle calls were made
    file,            \* the exported file: [len, nz], `len` bytes, `nz` the bytes that are not 0 by offset
    gcall,           \* the last call of set_obstacle / is_obstacle: [op, on, x, y, z, outcome]
    overflow_checks, \* the build's profile: whether u32 arithmetic that overflows panics
    \* ---- a FolderGridProvider and its query
    folder,          \* the grid folder: one chunk file, [gx, gy, state, file]
    vector,          \* the world point asked for, in half units: <<x, y, z>>
    answer           \* is_obstacle's outcome: "none" | "true" | "false" | "panic" | "crash"

searchVars == <<stepCost, heur, start, goal, pc, reachable, explored, result, path,
                calledAdjacent, calledToGlobal, pops>>

gridVars == <<gphase, grid, loaded, requested, strayed, sets, file, gcall, overflow_checks>>

providerVars == <<folder, vector, answer>>

vars == <<searchVars, gridVars, providerVars>>

-----------------------------------------------------------------------------
(* Bounds of the search model *)

\* The locations of the map: four, the least number with which a location that
\* is not the goal is popped twice.
Loc == {1, 2, 3, 4}
NumLoc == Cardinality(Loc)

\* The dearest move.
MaxCost == 2

\* The costs a move may have, and the estimates the heuristic may give.
StepCosts == 1..MaxCost
Estimates == {0, 1}

\* World points: two per location (the provider truncates), and one outside the map.
Points == 0..(2 * NumLoc)

\* The start is location 1 (the family of maps is closed under renaming the
\* locations) or the point outside the map; the goal is any location or the
\* point outside. A call's points are not the locations' own points, so that
\* to_global_vector does not give them back.
StartPoints == {1, 2 * NumLoc}
GoalPoints == {p \in Points : p % 2 = 1 \/ p = 2 * NumLoc}

None == 0

\* A value larger than every path cost of the model.
Infinity == MaxCost * NumLoc + 1

-----------------------------------------------------------------------------
(* The provider: tests::SimpleLocalVectorProvider, over a finite map *)

\* get_local_vector: the test providers truncate the point (`as i32`); a point
\* outside the map resolves to nothing.
get_local_vector(p) == IF p < 2 * NumLoc THEN (p \div 2) + 1 ELSE None

\* to_global_vector: the location's own world point.
to_global_vector(l) == 2 * (l - 1)

\* get_adjacent_vectors: the vacant neighbours with the cost of moving.
get_adjacent_vectors(l) == {<<m, stepCost[<<l, m>>]>> : m \in {k \in Loc : stepCost[<<l, k>>] > 0}}

\* Distance::distance(l, goal location)
distance(l) == heur[l]

-----------------------------------------------------------------------------
(* Node and its orderings *)

Node(l, c, e, p) ==
    [local_vector |-> l, cost |-> c, estimated_cost |-> e, previous_node_index |-> p]

\* impl PartialOrd for Node: total cost = cost + estimated_cost
total_cost(n) == n.cost + n.estimated_cost

\* BinaryHeap::pop under the reversed ordering: a node of least total cost,
\* any of them on a tie.
IsPop(n) ==
    /\ BagIn(n, reachable)
    /\ \A m \in BagToSet(reachable) : total_cost(n) <= total_cost(m)

\* IndexSet::contains, by Node's Eq/Hash: the location alone
Contains(ex, l) == \E i \in 1..Len(ex) : ex[i].local_vector = l

\* IndexSet::get_index_of (0-based)
IndexOf(ex, l) == (CHOOSE i \in 1..Len(ex) : ex[i].local_vector = l) - 1

\* IndexSet::insert_full: the index of the (old or new) entry, and the set
InsertFullIndex(ex, n) ==
    IF Contains(ex, n.local_vector) THEN IndexOf(ex, n.local_vector) ELSE Len(ex)

InsertFullSet(ex, n) ==
    IF Contains(ex, n.local_vector) THEN ex ELSE Append(ex, n)

\* The cost find_path gives the node of a neighbour: the node is built with the
\* step's cost, and lowered to new_cost = current.cost + cost when that is less.
AdjacentCost(currentCost, cost) ==
    LET new_cost == currentCost + cost
    IN  IF cost > new_cost THEN new_cost ELSE cost

\* AdjacentNodes with the back-pointer left at 0.
AdjacentNodesNoBackPointer(ex, current, explored_node_index) ==
    {Node(a[1], AdjacentCost(current.cost, a[2]), distance(a[1]), 0) :
        a \in {b \in get_adjacent_vectors(current.local_vector) : ~Contains(ex, b[1])}}

\* AdjacentNodes with the closed-set test made on `current` in place of the neighbour.
AdjacentNodesTestCurrent(ex, current, explored_node_index) ==
    {Node(a[1], AdjacentCost(current.cost, a[2]), distance(a[1]), explored_node_index) :
        a \in {b \in get_adjacent_vectors(current.local_vector) :
                    ~Contains(ex, current.local_vector)}}

\* The nodes the for loop pushes for `current`, entered in explored at `explored_node_index`.
AdjacentNodes(ex, current, explored_node_index) ==
    {Node(a[1], AdjacentCost(current.cost, a[2]), distance(a[1]), explored_node_index) :
        a \in {b \in get_adjacent_vectors(current.local_vector) : ~Contains(ex, b[1])}}

\* reconstruct_path: the node's point, then its predecessors' while the
\* back-pointer is not 0.
RECURSIVE reconstruct_path(_, _)
reconstruct_path(node, ex) ==
    <<to_global_vector(node.local_vector)>> \o
        (IF node.previous_node_index # 0
            THEN reconstruct_path(ex[node.previous_node_index + 1], ex)
            ELSE <<>>)

\* path.reverse() left out.
NoReverse(s) == s

\* path.reverse()
Reverse(s) == [i \in 1..Len(s) |-> s[Len(s) + 1 - i]]

-----------------------------------------------------------------------------
(* Grid (lib.rs) *)

\* The widest and the highest small grid, and the most set_obstacle calls.
MaxWidth == 3
MaxHeight == 3
MaxSets == 2

\* f32::MANTISSA_DIGITS: the bits of an f32's significand.
F32_MANTISSA_DIGITS == 24

RECURSIVE Pow2(_)
Pow2(k) == IF k = 0 THEN 1 ELSE 2 * Pow2(k - 1)

\* The least width whose square is more than 2^24 bits, past which
\* `length as f32` is no longer exact.
LargeWidth == Pow2(F32_MANTISSA_DIGITS \div 2) + 1

\* u32::BITS
U32_BITS == 32

\* The least width whose square passes u32::MAX.
HugeWidth == Pow2(U32_BITS \div 2)

\* i32::MAX, the most a term of the model may be.
I32Max == (Pow2(U32_BITS - 2) - 1) + Pow2(U32_BITS - 2)

\* u32::MAX / a, of a > 1: u32::MAX is 2 * i32::MAX + 1.
U32MaxDiv(a) == 2 * (I32Max \div a) + (2 * (I32Max % a) + 1) \div a

\* Whether the u32 product a * b passes u32::MAX: no product by 0 or 1 does.
MulOverflows(a, b) == a > 1 /\ b > U32MaxDiv(a)

\* u32::wrapping_mul: the low 32 bits of the product, by 16-bit halves. The
\* products the model forms have a low 32 bits below 2^31.
WrappingMul(a, b) ==
    LET half == Pow2(U32_BITS \div 2)
        cross == ((a \div half) * (b % half) + (a % half) * (b \div half)) % half
    IN  (a % half) * (b % half) + cross * half

\* The value of the u32 product a * b where it does not panic.
MulU32(a, b) == IF MulOverflows(a, b) THEN WrappingMul(a, b) ELSE a * b

\* width * width * height, and whether it overflows.
Length(width, height) == MulU32(MulU32(width, width), height)

LengthOverflows(width, height) ==
    MulOverflows(width, width) \/ MulOverflows(MulU32(width, width), height)

Widths == 0..MaxWidth
Heights == 0..MaxHeight

\* The coordinates the calls are made with: every one of a small grid and the
\* first ones outside it; the first and the last of a large grid.
CallXY(g) == IF g.width > MaxWidth THEN {0, g.width - 1} ELSE 0..MaxWidth
CallZ == 0..MaxHeight

\* The spacing of the f32 values around n.
RECURSIVE Ulp(_)
Ulp(n) == IF n < Pow2(F32_MANTISSA_DIGITS) THEN 1 ELSE 2 * Ulp(n \div 2)

\* `n as f32`: the nearest f32, the one of even significand on a tie.
AsF32(n) ==
    LET u == Ulp(n)
        q == n \div u
        r == n % u
    IN  IF 2 * r < u THEN q * u
        ELSE IF 2 * r > u THEN (q + 1) * u
        ELSE IF q % 2 = 0 THEN q * u ELSE (q + 1) * u

\* (length as f32 / 8.0).ceil(): the division and the ceiling are exact.
CeilBytes(length) == (AsF32(length) + 7) \div 8

\* Grid::new, of a width and a height whose product does not overflow.
GridNew(width, height) ==
    LET length == Length(width, height)
        length_with_padding == CeilBytes(length) * 8
    IN  [width |-> width, height |-> height, len |-> length_with_padding, ones |-> {}]

Panic == "panic"

\* A returned bool, as an outcome.
Bool(b) == IF b THEN "true" ELSE "false"

\* Grid::index: the three assertions, each against the width ...
IndexAsserts(x, y, z, width) == width > x /\ width > y /\ width > z

\* ... then the bit's index, and whether its arithmetic overflows.
index(x, y, z, width) == x + MulU32(width, y + MulU32(width, z))

IndexOverflows(y, z, width) ==
    MulOverflows(width, z) \/ MulOverflows(width, y + MulU32(width, z))

\* The outcomes of set_obstacle: <<outcome, data>>. set_unchecked past the bit
\* vector's end is undefined: the process may crash, or go on with the write
\* landing outside the vector.
SetObstacleOutcomes(g, x, y, z) ==
    LET i == index(x, y, z, g.width)
    IN  IF ~IndexAsserts(x, y, z, g.width) THEN {<<Panic, g>>}
        ELSE IF overflow_checks /\ IndexOverflows(y, z, g.width) THEN {<<Panic, g>>}
        ELSE IF i < g.len THEN {<<"returned", [g EXCEPT !.ones = @ \cup {i}]>>}
        ELSE {<<"crash", g>>, <<"returned", g>>}

\* The outcomes of is_obstacle. get_unchecked past the bit vector's end is
\* undefined: the process may crash, or read either value.
IsObstacleOutcomes(g, x, y, z) ==
    LET i == index(x, y, z, g.width)
    IN  IF ~IndexAsserts(x, y, z, g.width) THEN {Panic}
        ELSE IF overflow_checks /\ IndexOverflows(y, z, g.width) THEN {Panic}
        ELSE IF i < g.len THEN {Bool(i \in g.ones)}
        ELSE {"crash", "true", "false"}

\* write_u32::<BigEndian>
BE32(n) == <<(n \div Pow2(24)) % 256, (n \div Pow2(16)) % 256, (n \div Pow2(8)) % 256, n % 256>>

\* Byte k of the bit vector's slice: Lsb0, bit 8k+j is worth 2^j.
RECURSIVE ByteOfBits(_, _, _)
ByteOfBits(ones, k, j) ==
    IF j = 8 THEN 0
    ELSE (IF 8 * k + j \in ones THEN Pow2(j) ELSE 0) + ByteOfBits(ones, k, j + 1)

NoFile == [len |-> 0, nz |-> <<>>]

ByteAt(f, o) == IF o \in DOMAIN f.nz THEN f.nz[o] ELSE 0

\* Grid::export: the two headers, then data.as_slice().
Export(g) ==
    LET hdr == BE32(g.width) \o BE32(g.height)
        offsets == {o \in 0..7 : hdr[o + 1] # 0} \cup {8 + (i \div 8) : i \in g.ones}
    IN  [len |-> 8 + g.len \div 8,
         nz  |-> [o \in offsets |-> IF o < 8 THEN hdr[o + 1] ELSE ByteOfBits(g.ones, o - 8, 0)]]

\* read_u32::<BigEndian> at offset o, of a file that has the four bytes
ReadU32(f, o) ==
    ByteAt(f, o) * Pow2(24) + ByteAt(f, o + 1) * Pow2(16)
        + ByteAt(f, o + 2) * Pow2(8) + ByteAt(f, o + 3)

\* BitVec::from_vec: the bits of the first `bytes` bytes of the body, Lsb0.
BitsOfBody(f, bytes) ==
    {8 * (q[1] - 8) + q[2] :
        q \in {r \in (DOMAIN f.nz) \X (0..7) :
                  /\ r[1] >= 8
                  /\ r[1] < 8 + bytes
                  /\ (f.nz[r[1]] \div Pow2(r[2])) % 2 = 1}}

\* Grid::import of an opened file: [ok, panic, grid]. The two headers are
\* read, the length is their product, then read_exact fills ceil(length / 8)
\* bytes; a read past the end is the error.
Import(f) ==
    IF f.len < 8 THEN [ok |-> FALSE, panic |-> FALSE, grid |-> GridNew(0, 0)]
    ELSE LET width == ReadU32(f, 0)
             height == ReadU32(f, 4)
             length == Length(width, height)
             bytes == CeilBytes(length)
         IN  IF overflow_checks /\ LengthOverflows(width, height)
                 THEN [ok |-> FALSE, panic |-> TRUE, grid |-> GridNew(0, 0)]
             ELSE IF f.len - 8 < bytes
                 THEN [ok |-> FALSE, panic |-> FALSE, grid |-> GridNew(0, 0)]
             ELSE [ok |-> TRUE, panic |-> FALSE,
                   grid |-> [width |-> width, height |-> height, len |-> 8 * bytes,
                             ones |-> BitsOfBody(f, bytes)]]

InRange(g, x, y, z) == x < g.width /\ y < g.width /\ z < g.height

GridAlive == gcall.outcome \notin {Panic, "crash"}

NoCall == [op |-> "none", on |-> "none", x |-> 0, y |-> 0, z |-> 0, outcome |-> "none"]

\* grid.set_obstacle(x, y, z)
SetObstacle ==
    /\ gphase = "building"
    /\ GridAlive
    /\ sets < MaxSets
    /\ sets' = sets + 1
    /\ \E x \in CallXY(grid), y \in CallXY(grid), z \in CallZ :
         \E out \in SetObstacleOutcomes(grid, x, y, z) :
            /\ gcall' = [op |-> "set_obstacle", on |-> gphase, x |-> x, y |-> y, z |-> z,
                         outcome |-> out[1]]
            /\ grid' = out[2]
            /\ requested' = IF InRange(grid, x, y, z) /\ out[1] = "returned"
                              THEN requested \cup {<<x, y, z>>} ELSE requested
            /\ strayed' = (strayed \/ ~InRange(grid, x, y, z))
    /\ UNCHANGED <<gphase, loaded, file, searchVars, providerVars, overflow_checks>>

\* grid.is_obstacle(x, y, z), of the grid being built or of the imported one.
\* A query that returns changes nothing, so a run ends with its query.
IsObstacle ==
    /\ gphase \in {"building", "imported"}
    /\ GridAlive
    /\ \E x \in CallXY(grid), y \in CallXY(grid), z \in CallZ :
         \E out \in IsObstacleOutcomes(IF gphase = "imported" THEN loaded ELSE grid, x, y, z) :
            /\ gcall' = [op |-> "is_obstacle", on |-> gphase, x |-> x, y |-> y, z |-> z,
                         outcome |-> out]
            /\ strayed' = (strayed \/ ~InRange(grid, x, y, z))
    /\ gphase' = "queried"
    /\ UNCHANGED <<grid, loaded, requested, sets, file, searchVars, providerVars, overflow_checks>>

\* grid.export(path)
ExportGrid ==
    /\ gphase = "building"
    /\ GridAlive
    /\ file' = Export(grid)
    /\ gphase' = "exported"
    /\ gcall' = NoCall
    /\ UNCHANGED <<grid, loaded, requested, strayed, sets, searchVars, providerVars, overflow_checks>>

\* Grid::import(path), of the file just exported
ImportGrid ==
    /\ gphase = "exported"
    /\ Import(file).ok
    /\ loaded' = Import(file).grid
    /\ gphase' = "imported"
    /\ UNCHANGED <<grid, requested, strayed, sets, file, gcall, searchVars, providerVars, overflow_checks>>

IdleProvider ==
    /\ folder = [gx |-> 0, gy |-> 0, state |-> "missing", file |-> NoFile]
    /\ vector = <<0, 0, 0>>
    /\ answer = "none"

IdleGrid ==
    /\ gphase = "idle"
    /\ grid = GridNew(0, 0)
    /\ loaded = GridNew(0, 0)
    /\ requested = {}
    /\ strayed = FALSE
    /\ sets = 0
    /\ file = NoFile
    /\ gcall = NoCall
    /\ overflow_checks = TRUE

IdleSearch ==
    /\ stepCost = <<>>
    /\ heur = <<>>
    /\ start = 0
    /\ goal = 0
    /\ pc = "idle"
    /\ reachable = EmptyBag
    /\ explored = <<>>
    /\ result = "none"
    /\ path = <<>>
    /\ calledAdjacent = FALSE
    /\ calledToGlobal = FALSE
    /\ pops = 0

InitGrid ==
    /\ \E w \in Widths, h \in Heights : grid = GridNew(w, h)
    /\ gphase = "building"
    /\ loaded = GridNew(0, 0)
    /\ requested = {}
    /\ strayed = FALSE
    /\ sets = 0
    /\ file = NoFile
    /\ gcall = NoCall
    /\ overflow_checks \in BOOLEAN
    /\ IdleSearch
    /\ IdleProvider

NextGrid == SetObstacle \/ IsObstacle \/ ExportGrid \/ ImportGrid

\* Small grids.
SpecGrid == InitGrid /\ [][NextGrid]_vars

\* Grids of more than 2^24 bits.
InitLargeGrid ==
    /\ \E h \in 1..MaxHeight : grid = GridNew(LargeWidth, h)
    /\ gphase = "building"
    /\ loaded = GridNew(0, 0)
    /\ requested = {}
    /\ strayed = FALSE
    /\ sets = 0
    /\ file = NoFile
    /\ gcall = NoCall
    /\ overflow_checks \in BOOLEAN
    /\ IdleSearch
    /\ IdleProvider

SpecLargeGrid == InitLargeGrid /\ [][NextGrid]_vars

-----------------------------------------------------------------------------
(* FolderGridProvider (provider.rs) *)

\* The closures of tests::test_is_obstacle, with a chunk of ChunkSize world
\* units in place of 533.33: grid id 32 begins at axis 0 and ids fall as the
\* axis grows.
IdOrigin == 32
ChunkSize == 2

\* `as u32` of a float: a negative value saturates to 0.
AsU32(n) == IF n < 0 THEN 0 ELSE n

\* f32::round of a number of half units: to the nearest integer, a half away from 0.
Round(h) == IF h >= 0 THEN (h + 1) \div 2 ELSE 0 - ((1 - h) \div 2)

\* axis_to_grid_id_fn: (32.0 - axis / size).floor() as u32, the axis in half units
axis_to_grid_id_fn(a) == AsU32((2 * ChunkSize * IdOrigin - a) \div (2 * ChunkSize))

\* grid_id_to_axis_fn: (32.0 - grid_id as f32) * size, in half units
grid_id_to_axis_fn(id) == 2 * (IdOrigin - id) * ChunkSize

\* Grid::import(grid_path): File::open fails on a file that is missing or cannot
\* be read.
ImportPath(gx, gy) ==
    IF folder.gx = gx /\ folder.gy = gy /\ folder.state = "present"
        THEN Import(folder.file)
        ELSE [ok |-> FALSE, panic |-> FALSE, grid |-> GridNew(0, 0)]

\* Line 60's guard, z in half units.
ZInChunk(z, height) == z >= 0 /\ z <= 2 * height

\* Lines 61-66: the voxel coordinates handed to the chunk's is_obstacle.
VoxelOf(v) ==
    LET grid_start_x == grid_id_to_axis_fn(axis_to_grid_id_fn(v[1]))
        grid_start_y == grid_id_to_axis_fn(axis_to_grid_id_fn(v[2]))
        x == AsU32(Round(grid_start_x - v[1]))
        y == AsU32(Round(grid_start_y - v[2]))
        z == AsU32(Round(v[3]))
    IN  <<x, y, z>>

\* FolderGridProvider::is_obstacle: its outcomes.
ProviderOutcomes(v) ==
    LET grid_x == axis_to_grid_id_fn(v[1])
        grid_y == axis_to_grid_id_fn(v[2])
        imported == ImportPath(grid_x, grid_y)
    IN  IF imported.panic THEN {Panic}
        ELSE IF imported.ok /\ ZInChunk(v[3], imported.grid.height)
          THEN LET voxel == VoxelOf(v)
               IN  IsObstacleOutcomes(imported.grid, voxel[1], voxel[2], voxel[3])
          ELSE {"false"}

\* grid_provider.is_obstacle(vector)
ProviderIsObstacle ==
    /\ answer = "none"
    /\ \E out \in ProviderOutcomes(vector) : answer' = out
    /\ UNCHANGED <<folder, vector, searchVars, gridVars>>

\* The axis values asked for: the chunk of id 32, and its neighbours' edges.
Axes == (0 - 2 * ChunkSize)..1
Altitudes == (0 - 2)..(2 * MaxHeight + 2)

\* The file of a grid with the voxels of S set.
RECURSIVE SetAll(_, _)
SetAll(g, S) ==
    IF S = {} THEN g
    ELSE LET v == CHOOSE w \in S : TRUE
         IN  SetAll([g EXCEPT !.ones = @ \cup {index(v[1], v[2], v[3], g.width)}], S \ {v})

\* A file cut to its first n bytes.
Truncate(f, n) ==
    [len |-> n, nz |-> [o \in {q \in DOMAIN f.nz : q < n} |-> f.nz[o]]]

\* The chunk files: a grid with at most one obstacle, whole, or cut in its
\* header or one byte short.
ChunkFiles ==
    UNION {LET voxels == {v \in (0..MaxWidth) \X (0..MaxWidth) \X (0..MaxHeight) :
                             v[1] < w /\ v[2] < w /\ v[3] < h /\ v[3] < w}
               whole == {Export(SetAll(GridNew(w, h), S)) : S \in {{}} \cup {{v} : v \in voxels}}
           IN  whole \cup {Truncate(f, 4) : f \in whole}
                     \cup {Truncate(f, f.len - 1) : f \in whole} :
           w \in Widths, h \in Heights}
        \cup {Export([width |-> HugeWidth, height |-> 1, len |-> 0, ones |-> {}])}

InitProvider ==
    /\ \E f \in ChunkFiles, st \in {"present", "unreadable", "missing"} :
          folder = [gx |-> IdOrigin, gy |-> IdOrigin, state |-> st,
                    file |-> IF st = "missing" THEN NoFile ELSE f]
    /\ vector \in Axes \X Axes \X Altitudes
    /\ answer = "none"
    /\ overflow_checks \in BOOLEAN
    /\ IdleSearch
    /\ gphase = "idle"
    /\ grid = GridNew(0, 0)
    /\ loaded = GridNew(0, 0)
    /\ requested = {}
    /\ strayed = FALSE
    /\ sets = 0
    /\ file = NoFile
    /\ gcall = NoCall

NextProvider == ProviderIsObstacle

SpecProvider == InitProvider /\ [][NextProvider]_vars

-----------------------------------------------------------------------------
(* find_path *)

\* Resolve searching as soon as the start alone is resolved.
ResolveStartOnly ==
    /\ pc = "call"
    /\ LET s == get_local_vector(start)
       IN  IF s # None
             THEN /\ reachable' = SetToBag({Node(s, 0, distance(s), 0)})
                  /\ pc' = "search"
                  /\ UNCHANGED result
             ELSE /\ result' = "UnresolvedGlobalVector"
                  /\ pc' = "done"
                  /\ UNCHANGED reachable
    /\ UNCHANGED <<stepCost, heur, start, goal, explored, path, calledAdjacent, calledToGlobal,
                   pops, gridVars, providerVars>>

\* Lines 46-58 and 100: both points are resolved; the start node is pushed, or
\* the call fails.
Resolve ==
    /\ pc = "call"
    /\ LET s == get_local_vector(start)
           g == get_local_vector(goal)
       IN  IF s # None /\ g # None
             THEN /\ reachable' = SetToBag({Node(s, 0, distance(s), 0)})
                  /\ pc' = "search"
                  /\ UNCHANGED result
             ELSE /\ result' = "UnresolvedGlobalVector"
                  /\ pc' = "done"
                  /\ UNCHANGED reachable
    /\ UNCHANGED <<stepCost, heur, start, goal, explored, path, calledAdjacent, calledToGlobal,
                   pops, gridVars, providerVars>>

\* Lines 60-67: the popped node is the goal.
ReturnPath ==
    /\ pc = "search"
    /\ \E current \in BagToSet(reachable) :
        /\ IsPop(current)
        /\ current.local_vector = get_local_vector(goal)
        /\ path' = Reverse(reconstruct_path(current, explored))
        /\ reachable' = reachable (-) SetToBag({current})
    /\ result' = "Ok"
    /\ calledToGlobal' = TRUE
    /\ pc' = "done"
    /\ pops' = pops + 1
    /\ UNCHANGED <<stepCost, heur, start, goal, explored, calledAdjacent, gridVars, providerVars>>

\* Lines 60, 69-95: the popped node is explored and its neighbours are pushed.
Expand ==
    /\ pc = "search"
    /\ \E current \in BagToSet(reachable) :
        /\ IsPop(current)
        /\ current.local_vector # get_local_vector(goal)
        /\ LET explored_node_index == InsertFullIndex(explored, current)
               ex == InsertFullSet(explored, current)
           IN  /\ explored' = ex
               /\ reachable' = (reachable (-) SetToBag({current}))
                                 (+) SetToBag(AdjacentNodes(ex, current, explored_node_index))
    /\ calledAdjacent' = TRUE
    /\ pops' = pops + 1
    /\ UNCHANGED <<stepCost, heur, start, goal, pc, result, path, calledToGlobal, gridVars, providerVars>>

\* Line 98: the heap is empty.
ReturnNoPath ==
    /\ pc = "search"
    /\ reachable = EmptyBag
    /\ result' = "NoPath"
    /\ pc' = "done"
    /\ UNCHANGED <<stepCost, heur, start, goal, reachable, explored, path,
                   calledAdjacent, calledToGlobal, pops, gridVars, providerVars>>

\* The maps: a move is offered both ways at the same cost (both cells are
\* vacant), never to the location itself.
Pairs == {q \in Loc \X Loc : q[1] < q[2]}

MapOf(c) ==
    [q \in Loc \X Loc |->
        IF q[1] < q[2] THEN c[q]
        ELSE IF q[2] < q[1] THEN c[<<q[2], q[1]>>]
        ELSE 0]

Maps == {MapOf(c) : c \in [Pairs -> StepCosts \cup {0}]}

InitSearch ==
    /\ stepCost \in Maps
    /\ heur \in [Loc -> Estimates]
    /\ start \in StartPoints
    /\ goal \in GoalPoints
    /\ pc = "call"
    /\ reachable = EmptyBag
    /\ explored = <<>>
    /\ result = "none"
    /\ path = <<>>
    /\ calledAdjacent = FALSE
    /\ calledToGlobal = FALSE
    /\ pops = 0
    /\ IdleGrid
    /\ IdleProvider

NextSearch == Resolve \/ ReturnPath \/ Expand \/ ReturnNoPath

SpecSearch == InitSearch /\ [][NextSearch]_vars

\* find_path is one sequential call: its loop keeps running until it returns.
FairSpecSearch == SpecSearch /\ WF_vars(NextSearch)

-----------------------------------------------------------------------------
(* Properties of find_path *)

startLoc == get_local_vector(start)
goalLoc == get_local_vector(goal)

Returned == pc = "done"
ReturnedOk == pc = "done" /\ result = "Ok"

\* The locations of the returned points.
PathLocs == [i \in 1..Len(path) |-> get_local_vector(path[i])]

\* The location a path element was moved to from.
Before(i) == IF i = 1 THEN startLoc ELSE PathLocs[i - 1]

Offered(l, m) == \E a \in get_adjacent_vectors(l) : a[1] = m

\* The locations reachable from l through get_adjacent_vectors.
RECURSIVE Closure(_)
Closure(S) ==
    LET T == S \cup {m \in Loc : \E l \in S : Offered(l, m)}
    IN  IF T = S THEN S ELSE Closure(T)

ReachableFrom(l) == Closure({l})

\* The least total cost of a path from l to g (Infinity when there is none).
RECURSIVE Relax(_, _, _)
Relax(D, g, k) ==
    IF k = 0 THEN D
    ELSE Relax([l \in Loc |->
                  LET via == {stepCost[<<l, m>>] + D[m] :
                                m \in {n \in Loc : stepCost[<<l, n>>] > 0 /\ D[n] < Infinity}}
                  IN  IF via = {} THEN D[l]
                      ELSE LET best == CHOOSE c \in via : \A d \in via : c <= d
                           IN  IF best < D[l] THEN best ELSE D[l]],
               g, k - 1)

MinCost(l, g) == Relax([m \in Loc |-> IF m = g THEN 0 ELSE Infinity], g, NumLoc)[l]

\* The total cost of the moves of the returned path.
RECURSIVE SumMoves(_)
SumMoves(i) == IF i = 0 THEN 0 ELSE SumMoves(i - 1) + stepCost[<<Before(i), PathLocs[i]>>]

PathCost == IF startLoc = goalLoc THEN 0 ELSE SumMoves(Len(path))

Admissible == \A l \in Loc : heur[l] <= MinCost(l, goalLoc)
Consistent ==
    /\ heur[goalLoc] = 0
    /\ \A l, m \in Loc : stepCost[<<l, m>>] > 0 => heur[l] <= stepCost[<<l, m>>] + heur[m]

\* C1: under an admissible and consistent heuristic (step costs are never
\* negative), the path find_path returns with Ok costs the least total cost of
\* any path from the start location to the goal location.
C1_Optimal ==
    (ReturnedOk /\ Admissible /\ Consistent) => PathCost = MinCost(startLoc, goalLoc)

\* C2, as stated: the last element of a returned path is the goal, and every
\* element was offered by get_adjacent_vectors for the element before it (the
\* first one: for the start location).
C2_PathValid_AsStated ==
    ReturnedOk =>
        /\ Len(path) >= 1
        /\ path[Len(path)] = to_global_vector(goalLoc)
        /\ \A i \in 1..Len(path) : Offered(Before(i), PathLocs[i])

\* C2, amended: the same for a call whose start and goal locations differ; a
\* call whose start is its goal returns the goal's point alone.
C2_PathValid ==
    ReturnedOk =>
        /\ Len(path) >= 1
        /\ path[Len(path)] = to_global_vector(goalLoc)
        /\ startLoc # goalLoc => \A i \in 1..Len(path) : Offered(Before(i), PathLocs[i])
        /\ startLoc = goalLoc => path = <<to_global_vector(goalLoc)>>

\* A path of two moves was returned on a map that does not offer every move.
C2_Witness ==
    /\ ReturnedOk
    /\ Len(path) >= 2
    /\ ~Offered(startLoc, goalLoc)

\* C3, as stated: the returned sequence runs from the start's point to the
\* goal's point, both included.
C3_StartToGoal_AsStated ==
    ReturnedOk =>
        /\ Len(path) >= 1
        /\ path[1] = to_global_vector(startLoc)
        /\ path[Len(path)] = to_global_vector(goalLoc)

\* C3, amended: the returned sequence ends with the goal's point and holds one
\* point per move: it begins with the point of a location offered for the
\* start, and the start's point is not in it, unless the start is the goal, when
\* it is that one point.
C3_MovesToGoal ==
    ReturnedOk =>
        /\ Len(path) >= 1
        /\ path[Len(path)] = to_global_vector(goalLoc)
        /\ startLoc # goalLoc =>
              /\ Offered(startLoc, PathLocs[1])
              /\ \A i \in 1..Len(path) : path[i] # to_global_vector(startLoc)
        /\ startLoc = goalLoc => path = <<to_global_vector(goalLoc)>>

\* A path of two moves was returned for a start point that is not its
\* location's own point.
C3_Witness ==
    /\ ReturnedOk
    /\ Len(path) >= 2
    /\ start # to_global_vector(startLoc)

\* What a returned call has answered, when both points are resolved.
AnswerRight ==
    (Returned /\ startLoc # None /\ goalLoc # None) =>
        /\ result \in {"Ok", "NoPath"}
        /\ result = "NoPath" <=> goalLoc \notin ReachableFrom(startLoc)
        /\ result = "Ok" => Len(path) >= 1

\* C4: a call returns, and with both points resolved it returns NoPath exactly
\* when the goal location is not reachable from the start location, and Ok,
\* with a path that is not empty, when it is.
C4_ReturnsRightAnswer == <>Returned /\ []AnswerRight

\* NoPath was returned after a location had been popped a second time.
C4_Witness ==
    /\ Returned
    /\ result = "NoPath"
    /\ pops > Len(explored)
    /\ Len(explored) >= 2

\* C9: with the start or the goal unresolved find_path returns
\* UnresolvedGlobalVector and calls neither get_adjacent_vectors nor
\* to_global_vector; with both resolved it never returns that error.
C9_Unresolved ==
    /\ (startLoc = None \/ goalLoc = None) =>
          /\ ~calledAdjacent
          /\ ~calledToGlobal
          /\ pc # "search"
          /\ Returned => result = "UnresolvedGlobalVector"
    /\ (startLoc # None /\ goalLoc # None) => result # "UnresolvedGlobalVector"

\* The call returned for a resolved start and an unresolved goal.
C9_Witness ==
    /\ Returned
    /\ startLoc # None
    /\ goalLoc = None
    /\ result = "UnresolvedGlobalVector"

\* The nodes of the frontier and of the explored set.
FrontierNodes == IF pc = "search" THEN BagToSet(reachable) ELSE {}
SearchNodes == FrontierNodes \cup {explored[i] : i \in 1..Len(explored)}

\* The sum of the step costs along a node's back-pointer chain to the start.
RECURSIVE ChainCost(_)
ChainCost(n) ==
    IF n.local_vector = startLoc THEN 0
    ELSE LET previous_node == explored[n.previous_node_index + 1]
         IN  ChainCost(previous_node)
                + stepCost[<<previous_node.local_vector, n.local_vector>>]

\* C11: in every state of the search the cost of each frontier and explored
\* node is the sum of the step costs along its back-pointer chain to the start,
\* and a node the frontier may pop next has the least of that cumulative cost
\* plus the estimate.
C11_CumulativeCost ==
    /\ \A n \in SearchNodes : n.cost = ChainCost(n)
    /\ \A n \in FrontierNodes :
          IsPop(n) => \A m \in FrontierNodes :
                          ChainCost(n) + n.estimated_cost <= ChainCost(m) + m.estimated_cost

-----------------------------------------------------------------------------
(* Properties of Grid *)

\* The last call was made with the coordinates of a voxel of the grid.
CallInRange == InRange(grid, gcall.x, gcall.y, gcall.z)

\* The grid's logical bits.
LogicalBits(g) == g.width * g.width * g.height

\* C5: a grid built by new and set_obstacle calls on voxels of the grid, then
\* exported and imported, has the same width and height, and is_obstacle
\* answers true exactly for the voxels that were set, for every voxel of the grid.
C5_RoundTrip ==
    /\ (gphase = "imported" /\ ~strayed) =>
          loaded.width = grid.width /\ loaded.height = grid.height
    /\ (gphase = "queried" /\ gcall.on = "imported" /\ ~strayed) =>
          gcall.outcome = Bool(<<gcall.x, gcall.y, gcall.z>> \in requested)

\* C6: set_obstacle and is_obstacle fail on a coordinate outside the grid
\* (x >= width, y >= width or z >= height).
C6_Bounds ==
    (gcall.op # "none" /\ ~CallInRange) => gcall.outcome = Panic

\* C7: on a grid made by new, whatever its width and height, every
\* set_obstacle call on a voxel of the grid returns, and is_obstacle answers
\* true exactly for the voxels that were set.
C7_SetGetExact ==
    (gcall.op # "none" /\ gcall.on = "building" /\ ~strayed) =>
        /\ gcall.op = "set_obstacle" => gcall.outcome = "returned"
        /\ gcall.op = "is_obstacle" =>
              gcall.outcome = Bool(<<gcall.x, gcall.y, gcall.z>> \in requested)

\* The bytes of the file from offset o, n of them.
Bytes(f, o, n) == [k \in 1..n |-> ByteAt(f, o + k - 1)]

\* C8: export writes 8 + ceil(w*w*h/8) bytes: w and h as big-endian 32-bit
\* integers, then the body, whose bit i (least significant first in each byte)
\* is 1 exactly when the voxel of flattened index i = x + w*(y + w*z) is an
\* obstacle; the 3x3x3 grid with obstacles at (1,1,1) and (2,2,2) is 12 bytes,
\* of body 0, 32, 0, 4.
C8_FileLayout ==
    gphase = "exported" =>
        /\ file.len = 8 + (LogicalBits(grid) + 7) \div 8
        /\ ReadU32(file, 0) = grid.width
        /\ ReadU32(file, 4) = grid.height
        /\ {i \in BitsOfBody(file, file.len - 8) : i < LogicalBits(grid)}
              = {v[1] + grid.width * (v[2] + grid.width * v[3]) : v \in requested}
        /\ (grid.width = 3 /\ grid.height = 3
                /\ requested = {<<1, 1, 1>>, <<2, 2, 2>>} /\ ~strayed) =>
              Bytes(file, 0, file.len) = <<0, 0, 0, 3, 0, 0, 0, 3, 0, 32, 0, 4>>

-----------------------------------------------------------------------------
(* Properties of FolderGridProvider *)

\* The folder holds a file under the name selected for the point.
Selected ==
    /\ folder.state # "missing"
    /\ folder.gx = axis_to_grid_id_fn(vector[1])
    /\ folder.gy = axis_to_grid_id_fn(vector[2])

\* The file is shorter than its layout: less than the two headers, or a body
\* of fewer than ceil(w*w*h/8) bytes.
TooShort(f) ==
    \/ f.len < 8
    \/ LengthOverflows(ReadU32(f, 0), ReadU32(f, 4))
    \/ f.len - 8 < (ReadU32(f, 0) * ReadU32(f, 0) * ReadU32(f, 4) + 7) \div 8

\* The point's vertical coordinate lies outside [0, chunk.height].
ZOutside ==
    /\ folder.file.len >= 8
    /\ (vector[3] < 0 \/ vector[3] > 2 * ReadU32(folder.file, 4))

\* C10: when the chunk file selected for the point is missing, unreadable or
\* too short, or the point's vertical coordinate lies outside
\* [0, chunk.height], FolderGridProvider::is_obstacle returns false and
\* reports no error.
C10_FailOpen ==
    (/\ answer # "none"
     /\ \/ ~Selected
        \/ folder.state = "unreadable"
        \/ TooShort(folder.file)
        \/ ZOutside)
        => answer = "false"

\* The chunk the selected file imports as.
Chunk == ImportPath(axis_to_grid_id_fn(vector[1]), axis_to_grid_id_fn(vector[2]))

\* C12: for a point whose chunk file imports and whose vertical coordinate
\* lies within [0, chunk.height], both ends included, the voxel coordinates
\* handed to the chunk's is_obstacle satisfy x < width, y < width and
\* z < height, and the query returns a boolean.
C12_InBounds ==
    (/\ answer # "none"
     /\ Chunk.ok
     /\ vector[3] >= 0
     /\ vector[3] <= 2 * Chunk.grid.height)
        => /\ InRange(Chunk.grid, VoxelOf(vector)[1], VoxelOf(vector)[2], VoxelOf(vector)[3])
           /\ answer \in {"true", "false"}

====
